---- MODULE Spec2Model ----
(***************************************************************************)
(* JSON-to-relational loader of the MLB data pipeline:                     *)
(* JSONToSQLLoader (src/src/database/json_to_sql_loader.py) writing        *)
(* through DatabaseConnection (src/src/database/connection.py) into the    *)
(* tables of DatabaseConnection.create_tables.                             *)
(*                                                                         *)
(* A JSON object is a function from its keys to its values; a missing key  *)
(* is a key outside DOMAIN.  Integers hold ids, scores and dates (a date   *)
(* is a day number); None stands for Python's None and SQL's NULL in an    *)
(* integer place, NoneS in a text place.                                   *)
(***************************************************************************)
EXTENDS Integers, Sequences, FiniteSets, TLC

VARIABLES
    files,          \* the JSON files of the data directory
    teams,          \* table teams          (set of rows, team_id PRIMARY KEY)
    players,        \* table players        (set of rows, player_id PRIMARY KEY)
    games,          \* table games          (set of rows, game_id PRIMARY KEY)
    boxscore,       \* table boxscore       (rows in IDENTITY order)
    raw_json_data,  \* table raw_json_data  (rows in IDENTITY order)
    today,          \* the wall clock's date, datetime.now().date()
    last,           \* what the latest load_json_to_database call did and returned,
                    \* and whether the call before it had returned False
    lookup,         \* a fetch_game_metadata call: its inputs and what it returned
    connection,     \* the loader's DatabaseConnection object and the connections
                    \* opened through it
    scheduled,      \* what the latest load_schedule_data call did and returned
    batch           \* the latest run of load_dynamic_date_range_data: where it
                    \* stands, what it selected, what it counted

vars == <<files, teams, players, games, boxscore, raw_json_data, today, last,
          lookup, connection, scheduled, batch>>

(***************************************************************************)
(* Bounds                                                                  *)
(***************************************************************************)
MaxRaw == 3     \* committed raw_json_data rows (successful combined loads)
MaxDay == 2     \* days the wall clock runs through

(***************************************************************************)
(* Python values                                                           *)
(***************************************************************************)
None == -1
NoneS == "None"
BadDate == -2                       \* a date string that does not parse
EmptyDict == [k \in {} |-> None]    \* {}

\* d.get(k) for an integer, a text and an object value
GetI(d, k) == IF k \in DOMAIN d THEN d[k] ELSE None
GetS(d, k) == IF k \in DOMAIN d THEN d[k] ELSE NoneS
GetD(d, k) == IF k \in DOMAIN d THEN d[k] ELSE EmptyDict
\* d.get(k, default)
GetDef(d, k, default) == IF k \in DOMAIN d THEN d[k] ELSE default

\* truth value of a dict, an int-or-None, a str-or-None
TruthyD(d) == DOMAIN d # {}
TruthyI(v) == v # None /\ v # 0
TruthyS(v) == v # NoneS /\ v # ""

\* a or b, on text values
OrS(a, b) == IF TruthyS(a) THEN a ELSE b
\* a or b, on dates
OrDate(a, b) == IF a # None THEN a ELSE b

\* player_key.startswith('ID'), a key being the sequence of its characters
StartsWithID(key) == Len(key) >= 2 /\ key[1] = "I" /\ key[2] = "D"

\* 'marker' in str(json_file_path), a path being the sequence of its parts
InPath(marker, path) == \E i \in DOMAIN path : path[i] = marker

RECURSIVE ConcatAll(_)
ConcatAll(ss) == IF ss = <<>> THEN <<>> ELSE Head(ss) \o ConcatAll(Tail(ss))

(***************************************************************************)
(* The database: the tables and constraints of create_tables, and the SQL  *)
(* statements the loader sends.  Executing a statement on tables d gives   *)
(* [ok, db]: ok is FALSE when the statement raises, and db is then d.      *)
(***************************************************************************)
EmptyDb == [teams |-> {}, players |-> {}, games |-> {}, boxscore |-> <<>>, raw |-> <<>>]

\* WHERE a = b: NULL equals nothing
SqlEq(a, b) == a # None /\ b # None /\ a = b
\* FOREIGN KEY: NULL or the key of a row
FkOk(v, keys) == v = None \/ v \in keys

TeamIds(d) == {t.team_id : t \in d.teams}
PlayerIds(d) == {p.player_id : p \in d.players}
GameIds(d) == {g.game_id : g \in d.games}

Raised(d) == [ok |-> FALSE, db |-> d]
Done(d) == [ok |-> TRUE, db |-> d]

\* INSERT INTO raw_json_data
ExecRaw(d, p) == Done([d EXCEPT !.raw = Append(@, p)])

\* IF NOT EXISTS (SELECT 1 FROM teams WHERE team_id = :team_id) INSERT INTO teams
ExecTeam(d, p) ==
    IF \E t \in d.teams : SqlEq(t.team_id, p.team_id) THEN Done(d)
    ELSE IF p.team_id = None THEN Raised(d)
    ELSE Done([d EXCEPT !.teams = @ \cup {p}])

\* an upsert instead: an existing row is rewritten from the payload
ExecPlayer_Upsert(d, p) ==
    IF \E r \in d.players : SqlEq(r.player_id, p.player_id)
    THEN IF ~FkOk(p.team_id, TeamIds(d)) THEN Raised(d)
         ELSE Done([d EXCEPT !.players =
                      {IF SqlEq(r.player_id, p.player_id) THEN p ELSE r : r \in @}])
    ELSE IF p.player_id = None \/ ~FkOk(p.team_id, TeamIds(d)) THEN Raised(d)
    ELSE Done([d EXCEPT !.players = @ \cup {p}])

\* IF NOT EXISTS (SELECT 1 FROM players WHERE player_id = :player_id) INSERT INTO players
ExecPlayer(d, p) ==
    IF \E r \in d.players : SqlEq(r.player_id, p.player_id) THEN Done(d)
    ELSE IF p.player_id = None \/ ~FkOk(p.team_id, TeamIds(d)) THEN Raised(d)
    ELSE Done([d EXCEPT !.players = @ \cup {p}])

\* the SET list of the UPDATE branch of _insert_game
UpdateGame(g, p) ==
    [g EXCEPT !.game_date = p.game_date,
              !.home_score = p.home_score,
              !.away_score = p.away_score,
              !.inning = p.inning,
              !.inning_state = p.inning_state,
              !.game_status = p.game_status,
              !.game_type = p.game_type,
              !.series_description = p.series_description,
              !.official_date = p.official_date]

\* IF NOT EXISTS (SELECT 1 FROM games WHERE game_id = :game_id) INSERT ... ELSE UPDATE ...
ExecGame(d, p) ==
    IF \E g \in d.games : SqlEq(g.game_id, p.game_id)
    THEN Done([d EXCEPT !.games =
                 {IF SqlEq(g.game_id, p.game_id) THEN UpdateGame(g, p) ELSE g : g \in @}])
    ELSE IF \/ p.game_id = None
            \/ ~FkOk(p.home_team_id, TeamIds(d))
            \/ ~FkOk(p.away_team_id, TeamIds(d))
         THEN Raised(d)
         ELSE Done([d EXCEPT !.games = @ \cup {p}])

\* IF NOT EXISTS (SELECT 1 FROM boxscore WHERE game_id = :game_id AND player_id = :player_id)
\* INSERT INTO boxscore
ExecBox(d, p) ==
    IF \E i \in DOMAIN d.boxscore :
          SqlEq(d.boxscore[i].game_id, p.game_id) /\ SqlEq(d.boxscore[i].player_id, p.player_id)
    THEN Done(d)
    ELSE IF \/ ~FkOk(p.game_id, GameIds(d))
            \/ ~FkOk(p.player_id, PlayerIds(d))
            \/ ~FkOk(p.team_id, TeamIds(d))
         THEN Raised(d)
         ELSE Done([d EXCEPT !.boxscore = Append(@, p)])

\* self.connection.execute(text(query), params); "raise" is a Python error
\* raised while the parameters are built, before the statement is sent
execute_query(d, s) ==
    CASE s.op = "raw" -> ExecRaw(d, s.p)
      [] s.op = "team" -> ExecTeam(d, s.p)
      [] s.op = "player" -> ExecPlayer(d, s.p)
      [] s.op = "game" -> ExecGame(d, s.p)
      [] s.op = "box" -> ExecBox(d, s.p)
      [] OTHER -> Raised(d)

(***************************************************************************)
(* The loader's writes, in the order the code sends them                   *)
(***************************************************************************)
_save_raw_json(game_id, data_type) ==
    <<[op |-> "raw", p |-> [game_id |-> game_id, data_type |-> data_type]]>>

_insert_team(team_data) ==
    <<[op |-> "team",
       p |-> [team_id |-> GetI(team_data, "id"),
              team_name |-> GetS(team_data, "name"),
              abbreviation |-> GetS(team_data, "abbreviation"),
              league |-> GetS(GetD(team_data, "league"), "name"),
              division |-> GetS(GetD(team_data, "division"), "name")]]>>

_insert_player(player_data, team_id) ==
    <<[op |-> "player",
       p |-> [player_id |-> GetI(player_data, "id"),
              player_name |-> GetS(player_data, "fullName"),
              team_id |-> team_id,
              position |-> GetS(GetD(player_data, "primaryPosition"), "name")]]>>

\* an ISO timestamp is day * HoursPerDay + hour; .date() keeps the day
HoursPerDay == 24
DatePart(timestamp) == timestamp \div HoursPerDay

\* the precedence reversed: the embedded timestamp before the caller's date
ParseGameDate_EmbeddedFirst(game_date, game_data, now) ==
    LET game_datetime == GetI(game_data, "gameDate")
    IN  IF game_datetime # None /\ game_datetime # BadDate
        THEN DatePart(game_datetime)
        ELSE IF game_date # None THEN game_date ELSE now

\* the date _insert_game stores; BadDate when strptime raises
ParseGameDate(game_date, game_data, now) ==
    IF game_date # None
    THEN game_date
    ELSE LET game_datetime == GetI(game_data, "gameDate")
         IN  IF game_datetime # None
             THEN (IF game_datetime = BadDate THEN now ELSE DatePart(game_datetime))
             ELSE now

GameStatus(game_data) ==
    IF TruthyI(GetI(game_data, "currentInning")) THEN "Live" ELSE "Final"

\* the precedence reversed: the embedded field first, the metadata as fallback
MetaOrEmbedded_EmbeddedFirst(meta_value, embedded_value) == OrS(embedded_value, meta_value)

\* a default game type written when neither source has a value
MetaOrEmbedded_DefaultRegular(meta_value, embedded_value) ==
    IF OrS(meta_value, embedded_value) = NoneS THEN "R" ELSE OrS(meta_value, embedded_value)

\* game_metadata.get(k) or game_data.get(k2)
MetaOrEmbedded(meta_value, embedded_value) == OrS(meta_value, embedded_value)

GameParams(game_id, game_data, home_team, away_team, game_date, game_metadata, now) ==
    LET teams_data == GetD(game_data, "teams")
    IN  [game_id |-> game_id,
         game_date |-> ParseGameDate(game_date, game_data, now),
         home_team_id |-> GetI(home_team, "id"),
         away_team_id |-> GetI(away_team, "id"),
         home_score |-> GetDef(GetD(teams_data, "home"), "runs", 0),
         away_score |-> GetDef(GetD(teams_data, "away"), "runs", 0),
         inning |-> GetI(game_data, "currentInning"),
         inning_state |-> GetS(game_data, "inningState"),
         game_status |-> GameStatus(game_data),
         game_type |-> MetaOrEmbedded(GetS(game_metadata, "game_type"),
                                      GetS(game_data, "gameType")),
         series_description |-> MetaOrEmbedded(GetS(game_metadata, "series_description"),
                                               GetS(game_data, "seriesDescription")),
         official_date |-> OrDate(GetI(game_metadata, "official_date"),
                                  GetI(game_data, "officialDate"))]

_insert_game(game_id, game_data, home_team, away_team, game_date, game_metadata, now) ==
    LET p == GameParams(game_id, game_data, home_team, away_team, game_date, game_metadata, now)
    IN  IF p.game_date = BadDate
        THEN <<[op |-> "raise", p |-> p]>>
        ELSE <<[op |-> "game", p |-> p]>>

_process_game_data(game_id, game_data, game_date, game_metadata, now) ==
    LET teams_data == GetD(game_data, "teams")
        home_team == GetD(GetD(teams_data, "home"), "team")
        away_team == GetD(GetD(teams_data, "away"), "team")
    IN  (IF TruthyD(home_team) THEN _insert_team(home_team) ELSE <<>>)
        \o (IF TruthyD(away_team) THEN _insert_team(away_team) ELSE <<>>)
        \o _insert_game(game_id, game_data, home_team, away_team, game_date, game_metadata, now)

\* batting_stats.get(k) without the default 0: a missing field is stored as NULL
_insert_boxscore_stats_NoDefault(game_id, player_id, team_id, batting_stats) ==
    <<[op |-> "box",
       p |-> [game_id |-> game_id,
              player_id |-> player_id,
              team_id |-> team_id,
              at_bats |-> GetI(batting_stats, "atBats"),
              runs |-> GetI(batting_stats, "runs"),
              hits |-> GetI(batting_stats, "hits"),
              doubles |-> GetI(batting_stats, "doubles"),
              triples |-> GetI(batting_stats, "triples"),
              home_runs |-> GetI(batting_stats, "homeRuns"),
              rbi |-> GetI(batting_stats, "rbi"),
              walks |-> GetI(batting_stats, "walks"),
              strikeouts |-> GetI(batting_stats, "strikeOuts")]]>>

_insert_boxscore_stats(game_id, player_id, team_id, batting_stats) ==
    <<[op |-> "box",
       p |-> [game_id |-> game_id,
              player_id |-> player_id,
              team_id |-> team_id,
              at_bats |-> GetDef(batting_stats, "atBats", 0),
              runs |-> GetDef(batting_stats, "runs", 0),
              hits |-> GetDef(batting_stats, "hits", 0),
              doubles |-> GetDef(batting_stats, "doubles", 0),
              triples |-> GetDef(batting_stats, "triples", 0),
              home_runs |-> GetDef(batting_stats, "homeRuns", 0),
              rbi |-> GetDef(batting_stats, "rbi", 0),
              walks |-> GetDef(batting_stats, "walks", 0),
              strikeouts |-> GetDef(batting_stats, "strikeOuts", 0)]]>>

\* the body of "for player_key, player_data in players.items()"
PlayerEntry(game_id, team_info, entry) ==
    IF StartsWithID(entry.key)
    THEN LET person == GetD(entry.data, "person")
             batting == GetD(GetD(entry.data, "stats"), "batting")
         IN  (IF TruthyD(person)
                 THEN _insert_player(person, GetI(team_info, "id")) ELSE <<>>)
             \o (IF TruthyD(batting)
                 THEN _insert_boxscore_stats(game_id, GetI(person, "id"),
                                             GetI(team_info, "id"), batting)
                 ELSE <<>>)
    ELSE <<>>

\* the body of "for team_type in ['home', 'away']"
TeamSide(game_id, teams_data, team_type) ==
    LET team_data == GetD(teams_data, team_type)
        team_info == GetD(team_data, "team")
        entries == GetDef(team_data, "players", <<>>)
    IN  (IF TruthyD(team_info) THEN _insert_team(team_info) ELSE <<>>)
        \o ConcatAll([i \in DOMAIN entries |-> PlayerEntry(game_id, team_info, entries[i])])

_process_boxscore_data(game_id, boxscore_data) ==
    LET teams_data == GetD(boxscore_data, "teams")
    IN  TeamSide(game_id, teams_data, "home") \o TeamSide(game_id, teams_data, "away")

\* the keys of a payload whose values are objects
ObjectKeys == {"teams", "game_data", "boxscore", "gameData"}

_extract_game_id_from_data(data) ==
    IF "game_id" \in DOMAIN data THEN data["game_id"]
    ELSE IF "gamePk" \in DOMAIN data THEN data["gamePk"]
    ELSE LET nested == {k \in DOMAIN data \cap ObjectKeys : "gamePk" \in DOMAIN data[k]}
         IN  IF nested # {} THEN data[CHOOSE k \in nested : TRUE]["gamePk"] ELSE None

(***************************************************************************)
(* The three ingestion paths: the statements of one file                   *)
(***************************************************************************)
\* the two sections processed the other way round: boxscore, then game
CombinedStatements_BoxscoreFirst(data, now) ==
    LET game_id == GetI(data, "game_id")
        game_date == GetI(data, "game_date")
        game_metadata == [game_type |-> GetS(data, "game_type"),
                          official_date |-> GetI(data, "official_date"),
                          series_description |-> GetS(data, "series_description")]
    IN  _save_raw_json(game_id, "combined")
        \o (IF "boxscore" \in DOMAIN data
            THEN _process_boxscore_data(game_id, data["boxscore"])
            ELSE <<>>)
        \o (IF "game_data" \in DOMAIN data
            THEN _process_game_data(game_id, data["game_data"], game_date, game_metadata, now)
            ELSE <<>>)

CombinedStatements(data, now) ==
    LET game_id == GetI(data, "game_id")
        game_date == GetI(data, "game_date")
        game_metadata == [game_type |-> GetS(data, "game_type"),
                          official_date |-> GetI(data, "official_date"),
                          series_description |-> GetS(data, "series_description")]
    IN  _save_raw_json(game_id, "combined")
        \o (IF "game_data" \in DOMAIN data
            THEN _process_game_data(game_id, data["game_data"], game_date, game_metadata, now)
            ELSE <<>>)
        \o (IF "boxscore" \in DOMAIN data
            THEN _process_boxscore_data(game_id, data["boxscore"])
            ELSE <<>>)

BoxscoreStatements(data) ==
    LET game_id == _extract_game_id_from_data(data)
    IN  _save_raw_json(game_id, "boxscore") \o _process_boxscore_data(game_id, data)

GameStatements(data, now) ==
    LET game_id == _extract_game_id_from_data(data)
    IN  _save_raw_json(game_id, "game_data")
        \o _process_game_data(game_id, data, None, EmptyDict, now)

\* The statements run one after another on the connection, from statement i on.
\* fail_at names the statement at which the database itself raises (connection
\* lost, deadlock, timeout), 0 for none.  [ok, db, failed]: failed is the
\* position of the statement that raised, 0 when none did.
RECURSIVE RunFrom(_, _, _, _)
\* statement i gave r: go on with the next one, or stop at the one that raised
AfterStatement(r, d, stmts, i, fail_at) ==
    IF r.ok THEN RunFrom(r.db, stmts, i + 1, fail_at)
    ELSE [ok |-> FALSE, db |-> d, failed |-> i]

RunFrom(d, stmts, i, fail_at) ==
    IF i > Len(stmts) THEN [ok |-> TRUE, db |-> d, failed |-> 0]
    ELSE IF i = fail_at THEN [ok |-> FALSE, db |-> d, failed |-> i]
    ELSE AfterStatement(execute_query(d, stmts[i]), d, stmts, i, fail_at)

\* no rollback: what ran before the failure stays
TransactionExit_NoRollback(before, after, ok) == after

\* "with self.db.connection.begin() as trans": commit on a normal exit of the
\* block, rollback when the block raises
TransactionExit(before, after, ok) == IF ok THEN after ELSE before

\* a close that commits: what the connection had written stays
Disconnect_KeepsUncommitted(committed, uncommitted) == uncommitted

\* self.db.disconnect(): connection.close() rolls back what the connection's
\* autobegun transaction holds and was never committed
Disconnect(committed, uncommitted) == committed

\* what a path leaves when its statements ran as r: [result, committed,
\* uncommitted, failed].  The combined path runs them inside the transaction;
\* the two raw paths run them on the connection and commit nothing.
InTransaction(d, r) ==
    [result |-> r.ok, committed |-> TransactionExit(d, r.db, r.ok),
     uncommitted |-> TransactionExit(d, r.db, r.ok), failed |-> r.failed]

\* a connection in autocommit mode: every statement that ran stays
OnConnection_Autocommit(d, r) ==
    [result |-> r.ok, committed |-> r.db, uncommitted |-> r.db, failed |-> r.failed]

OnConnection(d, r) ==
    [result |-> r.ok, committed |-> d, uncommitted |-> r.db, failed |-> r.failed]

_load_combined_data(d, data, now, fail_at) ==
    InTransaction(d, RunFrom(d, CombinedStatements(data, now), 1, fail_at))

_load_boxscore_data(d, data, fail_at) ==
    OnConnection(d, RunFrom(d, BoxscoreStatements(data), 1, fail_at))

_load_game_data(d, data, now, fail_at) ==
    OnConnection(d, RunFrom(d, GameStatements(data, now), 1, fail_at))

\* the final else falling through to the game path instead of returning False
Dispatch_UnknownAsGame(path) ==
    IF InPath("combined_data", path) THEN <<"combined">>
    ELSE IF InPath("boxscore_raw", path) THEN <<"boxscore">>
    ELSE <<"game_data">>

\* the if / elif / else on the file's path: the ingestion paths selected
Dispatch(path) ==
    IF InPath("combined_data", path) THEN <<"combined">>
    ELSE IF InPath("boxscore_raw", path) THEN <<"boxscore">>
    ELSE IF InPath("game_raw", path) THEN <<"game_data">>
    ELSE <<>>

RunPath(kind, d, data, now, fail_at) ==
    CASE kind = "combined" -> _load_combined_data(d, data, now, fail_at)
      [] kind = "boxscore" -> _load_boxscore_data(d, data, fail_at)
      [] OTHER -> _load_game_data(d, data, now, fail_at)

\* load_from_json: None when the file cannot be read or parsed
load_from_json(f) == IF f.readable THEN f.data ELSE EmptyDict

\* the statements the selected path would send for file f
FileStatements(f, now) ==
    LET data == load_from_json(f)
        kinds == Dispatch(f.path)
    IN  IF ~TruthyD(data) \/ kinds = <<>> THEN <<>>
        ELSE CASE kinds[1] = "combined" -> CombinedStatements(data, now)
               [] kinds[1] = "boxscore" -> BoxscoreStatements(data)
               [] OTHER -> GameStatements(data, now)

\* the except clause of load_json_to_database and of the three _load_* methods:
\* what the caller gets when something raised inside
OnException == [result |-> FALSE, raised |-> FALSE]

\* a call that returns False before any path is selected
NoPath(d, dispatched) ==
    [result |-> FALSE, raised |-> FALSE, db |-> d, paths |-> <<>>,
     failed |-> 0, dispatched |-> dispatched]

\* the return of load_json_to_database after path kinds left r
Returned(kinds, r) ==
    [result |-> IF r.failed # 0 THEN OnException.result ELSE r.result,
     raised |-> IF r.failed # 0 THEN OnException.raised ELSE FALSE,
     db |-> Disconnect(r.committed, r.uncommitted),
     paths |-> kinds,
     failed |-> r.failed,
     dispatched |-> TRUE]

\* [result, raised, db, paths, failed, dispatched]
load_json_to_database(d, f, now, fail_at, connect_ok) ==
    IF ~TruthyD(load_from_json(f)) THEN NoPath(d, FALSE)
    ELSE IF ~connect_ok THEN NoPath(d, FALSE)
    ELSE IF Dispatch(f.path) = <<>> THEN NoPath(d, TRUE)
    ELSE Returned(Dispatch(f.path),
                  RunPath(Dispatch(f.path)[1], d, load_from_json(f), now, fail_at))

(***************************************************************************)
(* load_schedule_data, as the class ends up defining it: the second        *)
(* definition of the name replaces the first when the class body runs.     *)
(***************************************************************************)
\* the games of a schedule document in document order, each with the date
\* of its date entry
ScheduledGames(schedule_data) ==
    LET dates == GetDef(schedule_data, "dates", <<>>)
        Dated(i) == [j \in DOMAIN GetDef(dates[i], "games", <<>>) |->
                        [game |-> GetDef(dates[i], "games", <<>>)[j],
                         game_date |-> GetI(dates[i], "date")]]
    IN  ConcatAll([i \in DOMAIN dates |-> Dated(i)])

ScheduleGameParams(game_id, game_data, game_date) ==
    LET teams_data == GetD(game_data, "teams")
        linescore == GetD(game_data, "linescore")
        status == GetD(game_data, "status")
    IN  [game_id |-> game_id,
         game_date |-> game_date,
         home_team_id |-> GetI(GetD(GetD(teams_data, "home"), "team"), "id"),
         away_team_id |-> GetI(GetD(GetD(teams_data, "away"), "team"), "id"),
         home_score |-> GetDef(GetD(GetD(linescore, "teams"), "home"), "runs", 0),
         away_score |-> GetDef(GetD(GetD(linescore, "teams"), "away"), "runs", 0),
         inning |-> GetI(linescore, "currentInning"),
         inning_state |-> GetS(linescore, "inningState"),
         game_status |-> GetDef(status, "detailedState",
                                GetDef(status, "abstractGameState", "Unknown")),
         game_type |-> GetS(game_data, "gameType"),
         series_description |-> GetS(game_data, "seriesDescription"),
         official_date |-> GetI(game_data, "officialDate")]

_insert_game_from_schedule(game_id, game_data, game_date) ==
    IF game_date = BadDate
    THEN <<[op |-> "raise", p |-> ScheduleGameParams(game_id, game_data, game_date)]>>
    ELSE <<[op |-> "game", p |-> ScheduleGameParams(game_id, game_data, game_date)]>>

\* the body of the try of one game: its teams, then the game
ScheduledGameStatements(game, game_date) ==
    LET home_team == GetD(GetD(GetD(game, "teams"), "home"), "team")
        away_team == GetD(GetD(GetD(game, "teams"), "away"), "team")
    IN  (IF TruthyD(home_team) THEN _insert_team(home_team) ELSE <<>>)
        \o (IF TruthyD(away_team) THEN _insert_team(away_team) ELSE <<>>)
        \o _insert_game_from_schedule(GetI(game, "gamePk"), game, game_date)

\* the loop over the games from game k on, on connection state d; the games
\* of fails fail at their game write.  [db, games_loaded, failed_games]
RECURSIVE ScheduleFrom(_, _, _, _)
\* games_loaded += 1 after a game without error, "continue" after one with
Tally(ok, k, rest) ==
    [db |-> rest.db,
     games_loaded |-> rest.games_loaded + (IF ok THEN 1 ELSE 0),
     failed_games |-> rest.failed_games \cup (IF ok THEN {} ELSE {k})]

AfterScheduledGame(r, entries, k, fails) ==
    Tally(r.ok, k, ScheduleFrom(r.db, entries, k + 1, fails))

GameFrom(d, stmts, fails_here) ==
    RunFrom(d, stmts, 1, IF fails_here THEN Len(stmts) ELSE 0)

ScheduleFrom(d, entries, k, fails) ==
    IF k > Len(entries) THEN [db |-> d, games_loaded |-> 0, failed_games |-> {}]
    ELSE AfterScheduledGame(
             GameFrom(d, ScheduledGameStatements(entries[k].game, entries[k].game_date),
                      k \in fails),
             entries, k, fails)

\* "return True" after the loop, whatever the loop met; the finally clause
\* closes the connection, on which nothing was committed
ScheduleReturned(d, r) ==
    [result |-> TRUE, db |-> Disconnect(d, r.db), connected |-> TRUE,
     games_loaded |-> r.games_loaded, failed_games |-> r.failed_games]

\* [result, db, connected, games_loaded, failed_games]
load_schedule_data(d, schedule_data, fails, connect_ok) ==
    IF ~connect_ok
    THEN [result |-> FALSE, db |-> d, connected |-> FALSE,
          games_loaded |-> 0, failed_games |-> {}]
    ELSE ScheduleReturned(d, ScheduleFrom(d, ScheduledGames(schedule_data), 1, fails))

(***************************************************************************)
(* The DatabaseConnection object (src/src/database/connection.py):         *)
(* current is self.connection ("none", "open" or "closed"), stray counts   *)
(* the open connections self.connection no longer refers to, peak is the   *)
(* most connections open at once during the latest loader call, by is who  *)
(* used the object last.                                                   *)
(***************************************************************************)
OpenCount(c) == c.stray + (IF c.current = "open" THEN 1 ELSE 0)

\* connect(): self.connection = self.engine.connect(), whatever it held
connect(c) == [c EXCEPT !.current = "open", !.stray = OpenCount(c)]

\* disconnect(): if self.connection: self.connection.close()
disconnect(c) == IF c.current = "none" THEN c ELSE [c EXCEPT !.current = "closed"]

\* the object inside a loader call, after its connect() if it got that far
Inside(c, connected) == IF connected THEN connect(c) ELSE c

\* a loader call: connect() unless it returned before, then the finally clause
LoaderCall(c, connected) ==
    [disconnect(Inside(c, connected)) EXCEPT !.peak = OpenCount(Inside(c, connected)),
                                            !.by = "loader"]

(***************************************************************************)
(* load_dynamic_date_range_data (src/load_dynamic_date_range_data.py), run *)
(* for real (dry_run False) over the dates StartDate .. EndDate.           *)
(***************************************************************************)
StartDate == 1
EndDate == 2

\* datetime.strptime(date_str, '%Y%m%d').date(), days counted from 2025-03-01
DateOfStamp(part) ==
    CASE part = "20250301" -> 1
      [] part = "20250302" -> 2
      [] part = "20250303" -> 3
      [] OTHER -> None

\* re.search(r'_(\d{8})\.json$', filename): the part before the extension
extract_date_from_filename(path) ==
    IF Len(path) >= 2 /\ path[Len(path)] = "json"
    THEN DateOfStamp(path[Len(path) - 1])
    ELSE None

InRange(date) == StartDate <= date /\ date <= EndDate

\* SELECT DISTINCT game_date FROM games WHERE game_date >= :start_date AND
\* game_date <= :end_date
ExistingDates(d) == {g.game_date : g \in {h \in d.games : InRange(h.game_date)}}

\* the two DELETE statements of --clear: the boxscore lines of the games in
\* the range, then those games
ClearRange(d) ==
    LET cleared == {g.game_id : g \in {h \in d.games : InRange(h.game_date)}}
        Kept(line) == line.game_id \notin cleared
    IN  [d EXCEPT !.boxscore = SelectSeq(@, Kept),
                  !.games = {g \in @ : ~InRange(g.game_date)}]

\* folder.glob("combined_data_*.json") with a date in the range
Candidates(fs) ==
    {f \in fs : /\ InPath("combined_data", f.path)
                /\ extract_date_from_filename(f.path) # None
                /\ InRange(extract_date_from_filename(f.path))}

\* "if not clear_existing and not dry_run and file_date in existing_dates":
\* skipped, else included
SkippedFiles(fs, clear, existing_dates) ==
    {f \in Candidates(fs) :
        ~clear /\ extract_date_from_filename(f.path) \in existing_dates}
FilesToLoad(fs, clear, existing_dates) ==
    Candidates(fs) \ SkippedFiles(fs, clear, existing_dates)

\* all_combined_files.sort(): the place of a file name among the names
NameRank(path) ==
    CASE path[3] = "1" -> 1
      [] path[3] = "2" -> 2
      [] path[3] = "3" -> 3
      [] OTHER -> 4

RECURSIVE Sorted(_)
Sorted(fs) ==
    IF fs = {} THEN <<>>
    ELSE LET first == CHOOSE f \in fs : \A g \in fs : NameRank(f.path) <= NameRank(g.path)
         IN  <<first>> \o Sorted(fs \ {first})

\* what the run has when it reaches the load loop: the tables after the
\* clearing, the files to load in order, the files skipped
Selection(d, fs, clear) ==
    [db |-> IF clear THEN ClearRange(d) ELSE d,
     queue |-> Sorted(FilesToLoad(fs, clear, ExistingDates(d))),
     skipped |-> SkippedFiles(fs, clear, ExistingDates(d))]

\* the counting of the load loop: success_count += 1 after the call,
\* error_count += 1 in the except clause
Counted(b, f, call) ==
    [b EXCEPT !.queue = Tail(@),
              !.attempted = @ \cup {f},
              !.success_count = @ + (IF call.raised THEN 0 ELSE 1),
              !.error_count = @ + (IF call.raised THEN 1 ELSE 0),
              !.returned_true = @ + (IF call.result THEN 1 ELSE 0),
              !.returned_false = @ + (IF call.result THEN 0 ELSE 1)]

(***************************************************************************)
(* The schedule endpoint: MLBClient.fetch_game_metadata                    *)
(* (src/src/api/mlb_client.py).  A response is [raises, status_code, data].*)
(***************************************************************************)
\* the games of every date entry of a schedule document, in document order
ScheduleGames(data) ==
    LET dates == GetDef(data, "dates", <<>>)
    IN  ConcatAll([i \in DOMAIN dates |-> GetDef(dates[i], "games", <<>>)])

\* the dict fetch_game_metadata builds from a schedule entry
MetadataOf(game) ==
    [game_type |-> GetS(game, "gameType"),
     series_description |-> GetS(game, "seriesDescription"),
     official_date |-> GetI(game, "officialDate")]

\* the first game of the answer returned, whatever its gamePk
fetch_game_metadata_FirstGame(response, game_id) ==
    IF response.raises \/ response.status_code # 200 THEN EmptyDict
    ELSE IF ScheduleGames(response.data) = <<>> THEN EmptyDict
         ELSE MetadataOf(ScheduleGames(response.data)[1])

\* the entry fetch_game_metadata returns from: the first one whose gamePk is
\* game_id.  EmptyDict stands for the None it returns otherwise (the dict of
\* a match always has its keys).
fetch_game_metadata(response, game_id) ==
    IF response.raises \/ response.status_code # 200 THEN EmptyDict
    ELSE LET Match(game) == GetI(game, "gamePk") = game_id
             found == SelectSeq(ScheduleGames(response.data), Match)
         IN  IF found = <<>> THEN EmptyDict ELSE MetadataOf(found[1])

(***************************************************************************)
(* Payloads and files                                                      *)
(***************************************************************************)
TeamA == [id |-> 10, name |-> "A"]
TeamB == [id |-> 20, name |-> "B"]
TeamNoId == [name |-> "C"]

Key501 == <<"I", "D", "5", "0", "1">>
Key502 == <<"I", "D", "5", "0", "2">>
KeyOther == <<"P", "5", "0", "3">>

PersonX == [id |-> 501, fullName |-> "X"]
PersonY == [id |-> 502, fullName |-> "Y"]

Entry(key, person, batting) ==
    [key |-> key, data |-> [person |-> person, stats |-> [batting |-> batting]]]

BatFull == [atBats |-> 4, hits |-> 2, doubles |-> 2, homeRuns |-> 1]
BatShort == [atBats |-> 3, hits |-> 1, baseOnBalls |-> 2]

Side(team, entries) == [team |-> team, players |-> entries]
Box(home, away) == [teams |-> [home |-> home, away |-> away]]

\* the boxscore of the end-to-end scenario: X bats for A
BoxX == Box(Side(TeamA, <<Entry(Key501, PersonX, BatFull)>>), Side(TeamB, <<>>))
\* a later boxscore of the same game: X with fewer fields, Y bats for B
BoxXY == Box(Side(TeamA, <<Entry(Key501, PersonX, BatShort)>>),
             Side(TeamB, <<Entry(Key502, PersonY, BatFull)>>))
\* an entry with batting stats and no person; a key that is no player key
BoxNoPerson == Box(Side(TeamA, <<Entry(Key501, EmptyDict, BatShort)>>),
                   Side(TeamB, <<Entry(KeyOther, PersonY, BatFull)>>))

Score(team, runs) == [team |-> team, runs |-> runs]
\* a finished game, A at home, 3:1, with the game type embedded
GameFinal == [teams |-> [home |-> Score(TeamA, 3), away |-> Score(TeamB, 1)],
              gameType |-> "S", seriesDescription |-> "Spring", officialDate |-> 2]
\* the same game live, with B at home, 5:2, no embedded metadata and no date
GameLive == [teams |-> [home |-> Score(TeamB, 5), away |-> Score(TeamA, 2)],
             currentInning |-> 7, inningState |-> "Top"]
\* a game with a home team that has no id
GameNoTeamId == [teams |-> [home |-> Score(TeamNoId, 0), away |-> Score(TeamB, 0)]]

TopMeta == [game_type |-> "R", series_description |-> "Regular", official_date |-> 1]

Combined(game_id, extra) == [game_id |-> game_id] @@ extra

File(path, data) == [path |-> path, readable |-> TRUE, data |-> data]
Unreadable(path) == [path |-> path, readable |-> FALSE, data |-> EmptyDict]

CombinedPath == <<"data", "combined_data", "json">>
BoxscorePath == <<"data", "boxscore_raw", "json">>
GamePath == <<"data", "game_raw", "json">>

\* reloads of one game: complete, then changed, then from a raw game file
DirReload ==
    { File(CombinedPath, Combined(1, TopMeta @@ [game_date |-> 1, game_data |-> GameFinal,
                                                  boxscore |-> BoxX])),
      File(CombinedPath, Combined(1, [game_data |-> GameLive])),
      File(CombinedPath, Combined(1, [game_type |-> "R", game_data |-> GameLive])),
      File(GamePath, [gamePk |-> 1] @@ GameLive),
      File(GamePath, GameFinal) }

\* boxscore lines: overwritten fields, missing persons, missing games
DirBoxscore ==
    { File(CombinedPath, Combined(1, [game_date |-> 1, game_data |-> GameFinal,
                                      boxscore |-> BoxX])),
      File(CombinedPath, Combined(1, [game_date |-> 1, game_data |-> GameFinal,
                                      boxscore |-> BoxXY])),
      File(CombinedPath, Combined(1, [game_date |-> 1, game_data |-> GameFinal,
                                      boxscore |-> BoxNoPerson])),
      File(CombinedPath, Combined(2, [game_date |-> 1, boxscore |-> BoxX])),
      File(BoxscorePath, [gamePk |-> 1] @@ BoxXY) }

\* file kinds: no marker, two markers, unreadable, empty, failing payloads
DirKinds ==
    { File(<<"data", "schedule", "json">>,
           Combined(1, [game_date |-> 1, game_data |-> GameFinal])),
      File(<<"data", "combined_data", "boxscore_raw", "json">>,
           Combined(1, [game_date |-> 1, game_data |-> GameFinal, boxscore |-> BoxX])),
      File(<<"data", "game_raw", "boxscore_raw", "json">>, [gamePk |-> 2] @@ BoxX),
      Unreadable(CombinedPath),
      File(BoxscorePath, EmptyDict),
      File(CombinedPath, Combined(2, [game_date |-> BadDate, game_data |-> GameFinal])),
      File(CombinedPath, Combined(2, [game_date |-> 1, game_data |-> GameNoTeamId])),
      File(CombinedPath, [boxscore |-> BoxNoPerson]) }

\* team 10 as a later payload describes it, with league and division
TeamAFull == [id |-> 10, name |-> "A", abbreviation |-> "AAA",
              league |-> [name |-> "AL"], division |-> [name |-> "East"]]
\* the batting line of the end-to-end scenario: three fields only
BatThree == [atBats |-> 4, hits |-> 2, homeRuns |-> 1]
BoxThree == Box(Side(TeamA, <<Entry(Key501, PersonX, BatThree)>>), Side(TeamB, <<>>))
\* X now bats for B, and team 10 comes with its league and division
BoxTraded == Box(Side(TeamAFull, <<>>), Side(TeamB, <<Entry(Key501, PersonX, BatShort)>>))
\* a finished game without embedded metadata, team 10 described in full
GamePlain == [teams |-> [home |-> Score(TeamAFull, 4), away |-> Score(TeamB, 0)]]

\* data/boxscore_raw_2.json and data/game_raw_2.json
BoxscorePath2 == <<"data", "boxscore_raw", "2", "json">>
GamePath2 == <<"data", "game_raw", "2", "json">>

\* first-seen rows and recovered ids: the end-to-end payload, a later game
\* with the same team and player described differently, raw files without
\* an id in their body
DirFirstSeen ==
    { File(CombinedPath, Combined(1, TopMeta @@ [game_date |-> 1, game_data |-> GameFinal,
                                                  boxscore |-> BoxThree])),
      File(CombinedPath, Combined(2, [game_date |-> 1, game_data |-> GamePlain,
                                      boxscore |-> BoxTraded])),
      File(BoxscorePath2, BoxX),
      File(GamePath2, GamePlain) }

\* a game before its first pitch: inning 0, first pitch on day 2 at 23:00
GamePregame == [teams |-> [home |-> Score(TeamA, 0), away |-> Score(TeamB, 0)],
                currentInning |-> 0, inningState |-> "Top",
                gameDate |-> 2 * HoursPerDay + 23]
\* a live game whose embedded timestamp does not parse
GameBadStamp == [teams |-> [home |-> Score(TeamA, 1), away |-> Score(TeamB, 0)],
                 currentInning |-> 1, inningState |-> "Top", gameDate |-> BadDate]

\* dates and statuses: an embedded timestamp alone, under a caller's date,
\* and unparseable
DirDates ==
    { File(CombinedPath, Combined(1, [game_data |-> GamePregame])),
      File(CombinedPath, Combined(1, [game_date |-> 1, game_data |-> GamePregame])),
      File(CombinedPath, Combined(2, [game_data |-> GameBadStamp])) }

\* a game of the schedule as load_schedule_data reads it
ScheduledGame(game_pk, home, away) ==
    [gamePk |-> game_pk,
     teams |-> [home |-> [team |-> home], away |-> [team |-> away]],
     status |-> [detailedState |-> "Scheduled"],
     gameType |-> "R", seriesDescription |-> "Regular", officialDate |-> 1]
\* two dates, three games
ScheduleTwoDates ==
    [dates |-> <<[date |-> 1, games |-> <<ScheduledGame(1, TeamA, TeamB),
                                          ScheduledGame(2, TeamB, TeamA)>>],
                 [date |-> 2, games |-> <<ScheduledGame(3, TeamA, TeamB)>>]>>]
\* a game without a gamePk listed before a complete one
ScheduleNoGamePk ==
    [dates |-> <<[date |-> 1,
                  games |-> <<[teams |-> [home |-> [team |-> TeamA],
                                          away |-> [team |-> TeamB]]],
                              ScheduledGame(2, TeamB, TeamA)>>]>>]
Schedules == {ScheduleTwoDates, ScheduleNoGamePk, [dates |-> <<>>]}

\* the files of the calls on one loader: a complete combined file, a file of
\* no known kind, an unreadable file
DirCalls ==
    { File(CombinedPath, Combined(1, [game_date |-> 1, game_data |-> GameFinal,
                                      boxscore |-> BoxX])),
      File(<<"data", "schedule", "json">>,
           Combined(1, [game_date |-> 1, game_data |-> GameFinal])),
      Unreadable(CombinedPath) }

\* data/combined_data_<id>_<yyyymmdd>.json, the game of that day
RangeFile(id_part, date_part, game_id, game_date) ==
    File(<<"data", "combined_data", id_part, date_part, "json">>,
         Combined(game_id, [game_date |-> game_date, game_data |-> GameFinal]))

\* two games of 2025-03-01, one of 2025-03-02, one of the day after the range
DirRange ==
    { RangeFile("1", "20250301", 1, 1),
      RangeFile("2", "20250301", 2, 1),
      RangeFile("3", "20250302", 3, 2),
      RangeFile("4", "20250303", 4, 3) }

\* what the schedule endpoint answers: game 1 is scheduled, with a sibling
\* game of the same date listed before it
ScheduleResponse ==
    [raises |-> FALSE, status_code |-> 200,
     data |-> [dates |-> <<[games |-> <<[gamePk |-> 3, gameType |-> "E",
                                         seriesDescription |-> "Exhibition",
                                         officialDate |-> 2],
                                        [gamePk |-> 1, gameType |-> "R",
                                         seriesDescription |-> "Regular",
                                         officialDate |-> 1]>>]>>]]

Directories == <<DirReload, DirBoxscore, DirKinds, DirFirstSeen, DirDates>>

\* a DatabaseConnection nobody connected, a loader nobody gave a schedule
Unconnected == [current |-> "none", stray |-> 0, peak |-> 0, by |-> "none"]
NoSchedule == [data |-> EmptyDict, called |-> FALSE, result |-> FALSE,
               games_loaded |-> 0, total |-> 0, failed_games |-> {}]

\* no run of load_dynamic_date_range_data yet
NoBatch == [phase |-> "idle", clear |-> FALSE, queue |-> <<>>, attempted |-> {},
            skipped |-> {}, success_count |-> 0, error_count |-> 0,
            returned_true |-> 0, returned_false |-> 0]

\* no request made
NoLookup == [response |-> [raises |-> FALSE, status_code |-> 0, data |-> EmptyDict],
             game_id |-> None, called |-> FALSE, returned |-> EmptyDict]

NoFile == Unreadable(<<>>)
NoCall == [file |-> NoFile, paths |-> <<>>, result |-> FALSE, raised |-> FALSE,
           failed |-> 0, dispatched |-> FALSE, after_failure |-> FALSE]

(***************************************************************************)
(* The state machine                                                       *)
(***************************************************************************)
Db == [teams |-> teams, players |-> players, games |-> games,
       boxscore |-> boxscore, raw |-> raw_json_data]

Init ==
    /\ \E i \in DOMAIN Directories : files = Directories[i]
    /\ teams = {}
    /\ players = {}
    /\ games = {}
    /\ boxscore = <<>>
    /\ raw_json_data = <<>>
    /\ today = 1
    /\ last = NoCall
    /\ lookup = NoLookup
    /\ connection = Unconnected
    /\ scheduled = NoSchedule
    /\ batch = NoBatch

\* what one call of load_json_to_database on file f does to the tables and
\* returns
LoadOf(f) ==
    \E connect_ok \in BOOLEAN :
      \E fail_at \in 0 .. Len(FileStatements(f, today)) :
        \E out \in {load_json_to_database(Db, f, today, fail_at, connect_ok)} :
            /\ Len(out.db.raw) <= MaxRaw
            /\ teams' = out.db.teams
            /\ players' = out.db.players
            /\ games' = out.db.games
            /\ boxscore' = out.db.boxscore
            /\ raw_json_data' = out.db.raw
            /\ last' = [file |-> f, paths |-> out.paths, result |-> out.result,
                        raised |-> out.raised, failed |-> out.failed,
                        dispatched |-> out.dispatched,
                        after_failure |-> (last # NoCall /\ ~last.result)]
            /\ UNCHANGED <<files, today, lookup, scheduled>>

LoadFile == \E f \in files : LoadOf(f)

\* one call of load_json_to_database, the tables followed and the connection
\* object left aside (SpecCalls follows it)
Load ==
    /\ LoadFile
    /\ UNCHANGED <<connection, batch>>

\* midnight passes between two calls
Tick ==
    /\ today < MaxDay
    /\ today' = today + 1
    /\ UNCHANGED <<files, teams, players, games, boxscore, raw_json_data, last,
                   lookup, connection, scheduled, batch>>

Next == Load \/ Tick

Spec == Init /\ [][Next]_vars

(***************************************************************************)
(* Calls on one loader, the connection object followed: load_json_to_database, *)
(* load_schedule_data, the caller's own db.connect() (test_loader.py 5-7)  *)
(* and the garbage collector, which may finalise a connection no name      *)
(* refers to any more.                                                     *)
(***************************************************************************)
MaxOpen == 2

InitCalls ==
    /\ files = DirCalls
    /\ teams = {}
    /\ players = {}
    /\ games = {}
    /\ boxscore = <<>>
    /\ raw_json_data = <<>>
    /\ today = 1
    /\ last = NoCall
    /\ lookup = NoLookup
    /\ connection = Unconnected
    /\ scheduled = NoSchedule
    /\ batch = NoBatch

\* db.connect() by the code that built the loader on db
CallerConnects ==
    /\ connection.current # "open"
    /\ OpenCount(connection) < MaxOpen
    /\ connection' = [connect(connection) EXCEPT !.by = "caller"]
    /\ UNCHANGED <<files, teams, players, games, boxscore, raw_json_data, today, last,
                   lookup, scheduled, batch>>

\* a connection nothing refers to is finalised
Collect ==
    /\ connection.stray > 0
    /\ connection' = [connection EXCEPT !.stray = @ - 1]
    /\ UNCHANGED <<files, teams, players, games, boxscore, raw_json_data, today, last,
                   lookup, scheduled, batch>>

\* one call of load_json_to_database; it reached connect() and was connected
\* exactly when it went on to the dispatch
LoadJson ==
    /\ LoadFile
    /\ connection' = LoaderCall(connection, last'.dispatched)
    /\ UNCHANGED batch

\* one call of load_schedule_data
LoadSchedule ==
    \E schedule_data \in Schedules, connect_ok \in BOOLEAN :
      \E fails \in SUBSET DOMAIN ScheduledGames(schedule_data) :
        \E out \in {load_schedule_data(Db, schedule_data, fails, connect_ok)} :
            /\ teams' = out.db.teams
            /\ players' = out.db.players
            /\ games' = out.db.games
            /\ boxscore' = out.db.boxscore
            /\ raw_json_data' = out.db.raw
            /\ scheduled' = [data |-> schedule_data, called |-> TRUE,
                             result |-> out.result,
                             games_loaded |-> out.games_loaded,
                             total |-> Len(ScheduledGames(schedule_data)),
                             failed_games |-> out.failed_games]
            /\ connection' = LoaderCall(connection, out.connected)
            /\ UNCHANGED <<files, today, last, lookup, batch>>

NextCalls == LoadJson \/ LoadSchedule \/ CallerConnects \/ Collect

SpecCalls == InitCalls /\ [][NextCalls]_vars

(***************************************************************************)
(* Runs of load_dynamic_date_range_data over one directory, with and       *)
(* without --clear; a run may be stopped before it finishes.               *)
(***************************************************************************)
InitBatch ==
    /\ files = DirRange
    /\ teams = {}
    /\ players = {}
    /\ games = {}
    /\ boxscore = <<>>
    /\ raw_json_data = <<>>
    /\ today = 1
    /\ last = NoCall
    /\ lookup = NoLookup
    /\ connection = Unconnected
    /\ scheduled = NoSchedule
    /\ batch = NoBatch

\* the run up to its load loop; it returns here when it selected no file
StartRun ==
    /\ batch.phase # "loading"
    /\ \E clear \in BOOLEAN :
         \E sel \in {Selection(Db, files, clear)} :
            /\ teams' = sel.db.teams
            /\ players' = sel.db.players
            /\ games' = sel.db.games
            /\ boxscore' = sel.db.boxscore
            /\ raw_json_data' = sel.db.raw
            /\ batch' = [NoBatch EXCEPT !.phase = IF sel.queue = <<>> THEN "done"
                                                  ELSE "loading",
                                        !.clear = clear,
                                        !.queue = sel.queue,
                                        !.skipped = sel.skipped]
    /\ UNCHANGED <<files, today, last, lookup, connection, scheduled>>

\* one turn of the load loop
LoadNext ==
    /\ batch.phase = "loading"
    /\ batch.queue # <<>>
    /\ LoadOf(Head(batch.queue))
    /\ batch' = Counted(batch, Head(batch.queue), last')
    /\ UNCHANGED connection

\* the loop is through: the counts are reported
FinishRun ==
    /\ batch.phase = "loading"
    /\ batch.queue = <<>>
    /\ batch' = [batch EXCEPT !.phase = "done"]
    /\ UNCHANGED <<files, teams, players, games, boxscore, raw_json_data, today, last,
                   lookup, connection, scheduled>>

\* the process is stopped inside the loop
StopRun ==
    /\ batch.phase = "loading"
    /\ batch.queue # <<>>
    /\ batch' = [batch EXCEPT !.phase = "stopped"]
    /\ UNCHANGED <<files, teams, players, games, boxscore, raw_json_data, today, last,
                   lookup, connection, scheduled>>

NextBatch == StartRun \/ LoadNext \/ FinishRun \/ StopRun

SpecBatch == InitBatch /\ [][NextBatch]_vars

(***************************************************************************)
(* The schedule lookup on its own: fetch_game_metadata applied to every    *)
(* answer of the endpoint up to MaxGames games in a date entry and         *)
(* MaxDates date entries.                                                  *)
(***************************************************************************)
MaxGames == 2
MaxDates == 2

\* the games the endpoint lists: two ids in two game types, the official
\* date telling the ids apart, and an entry without a gamePk
ScheduleEntry(game_pk, game_type) ==
    [gamePk |-> game_pk, gameType |-> game_type,
     seriesDescription |-> "Series", officialDate |-> game_pk]
ScheduleEntries ==
    {ScheduleEntry(game_pk, game_type) : game_pk \in {1, 2}, game_type \in {"R", "S"}}
        \cup {[gameType |-> "E"]}

SeqsUpTo(S, n) == UNION {[1 .. k -> S] : k \in 0 .. n}

\* date entries with up to MaxGames games, and one without a games key
DateEntries ==
    {[games |-> gs] : gs \in SeqsUpTo(ScheduleEntries, MaxGames)} \cup {[date |-> 1]}
\* date entries that list one game
SingleGameDates == {[games |-> <<g>>] : g \in ScheduleEntries}

\* schedule documents: without a dates key, with no date entry, with one
\* date entry, and with up to MaxDates date entries of one game each
ScheduleDocuments ==
    {EmptyDict} \cup {[dates |-> <<d>>] : d \in DateEntries}
        \cup {[dates |-> ds] : ds \in SeqsUpTo(SingleGameDates, MaxDates)}

\* what requests.get does: raise, answer with an error status, answer 200
Responses ==
    {[raises |-> TRUE, status_code |-> 0, data |-> EmptyDict],
     [raises |-> FALSE, status_code |-> 404, data |-> EmptyDict]}
        \cup {[raises |-> FALSE, status_code |-> 200, data |-> d] : d \in ScheduleDocuments}

InitLookup ==
    /\ files = {}
    /\ teams = {}
    /\ players = {}
    /\ games = {}
    /\ boxscore = <<>>
    /\ raw_json_data = <<>>
    /\ today = 1
    /\ last = NoCall
    /\ connection = Unconnected
    /\ scheduled = NoSchedule
    /\ batch = NoBatch
    /\ \E response \in Responses, game_id \in {None, 1, 2} :
           lookup = [response |-> response, game_id |-> game_id,
                     called |-> FALSE, returned |-> EmptyDict]

\* one call of MLBClient.fetch_game_metadata
Fetch ==
    /\ ~lookup.called
    /\ lookup' = [lookup EXCEPT !.called = TRUE,
                                !.returned = fetch_game_metadata(lookup.response,
                                                                 lookup.game_id)]
    /\ UNCHANGED <<files, teams, players, games, boxscore, raw_json_data, today, last,
                   connection, scheduled, batch>>

NextLookup == Fetch

SpecLookup == InitLookup /\ [][NextLookup]_vars

(***************************************************************************)
(* Reading the latest call                                                 *)
(***************************************************************************)
tables == <<teams, players, games, boxscore, raw_json_data>>

KindMarkers == {"combined_data", "boxscore_raw", "game_raw"}
Markers(path) == {m \in KindMarkers : InPath(m, path)}

\* the ingestion path a call ran, "none" when it ran none
KindOf(call) == IF call.paths = <<>> THEN "none" ELSE call.paths[1]

\* the call loaded a combined file and returned True
CombinedLoaded(call) == call.result /\ KindOf(call) = "combined"

\* the game section of the payload a call loaded, and whether it has one
HasGameSection(call) ==
    \/ KindOf(call) = "combined" /\ "game_data" \in DOMAIN call.file.data
    \/ KindOf(call) = "game_data"
GameSection(call) ==
    IF KindOf(call) = "combined" THEN call.file.data["game_data"] ELSE call.file.data
GameIdOf(call) ==
    IF KindOf(call) = "combined" THEN GetI(call.file.data, "game_id")
    ELSE _extract_game_id_from_data(call.file.data)
HomeTeamOf(call) == GetD(GetD(GetD(GameSection(call), "teams"), "home"), "team")
AwayTeamOf(call) == GetD(GetD(GetD(GameSection(call), "teams"), "away"), "team")

NumericColumns == {"at_bats", "runs", "hits", "doubles", "triples", "home_runs",
                   "rbi", "walks", "strikeouts"}
Numeric(row) == [c \in NumericColumns |-> row[c]]

(***************************************************************************)
(* C1                                                                      *)
(***************************************************************************)
\* C1: after any sequence of loads the games table holds at most one row per
\* game_id and the boxscore table at most one row per (game_id, player_id).
C1_OneRowPerKey ==
    /\ \A g1, g2 \in games : g1.game_id = g2.game_id => g1 = g2
    /\ \A i, j \in DOMAIN boxscore :
         (/\ boxscore[i].game_id = boxscore[j].game_id
          /\ boxscore[i].player_id = boxscore[j].player_id) => i = j

(***************************************************************************)
(* C2                                                                      *)
(***************************************************************************)
\* C2: loading the same combined file a second time, right after a successful
\* load of it, changes nothing in teams, players, games and boxscore.
C2_SecondLoadChangesNothing ==
    [][(CombinedLoaded(last) /\ last'.file = last.file /\ last'.result)
         => (teams' = teams /\ players' = players /\ games' = games
             /\ boxscore' = boxscore)]_vars

(***************************************************************************)
(* C3                                                                      *)
(***************************************************************************)
\* C3: after a successful load of a payload with a game section, the Game row
\* of its game_id carries the scores, inning, inning state and status derived
\* from that payload, whatever earlier payloads held.
C3_LastWriteWins ==
    (last.result /\ HasGameSection(last)) =>
        \A g \in games :
            SqlEq(g.game_id, GameIdOf(last)) =>
                /\ g.home_score = GetDef(GetD(GetD(GameSection(last), "teams"), "home"), "runs", 0)
                /\ g.away_score = GetDef(GetD(GetD(GameSection(last), "teams"), "away"), "runs", 0)
                /\ g.inning = GetI(GameSection(last), "currentInning")
                /\ g.inning_state = GetS(GameSection(last), "inningState")
                /\ g.game_status = GameStatus(GameSection(last))

(***************************************************************************)
(* C4                                                                      *)
(***************************************************************************)
\* the batting lines of the payload of a file, as the loader sends them
BoxLines(f, now) ==
    {FileStatements(f, now)[k].p :
        k \in {n \in DOMAIN FileStatements(f, now) : FileStatements(f, now)[n].op = "box"}}

\* C4: a committed load of a payload with a batting line for a (game_id,
\* player_id) that already has a BoxscoreLine row leaves every numeric column
\* of that row equal to the payload's value, 0 for a field the payload lacks.
C4_LaterPayloadOverwrites ==
    [][raw_json_data' # raw_json_data =>
         \A i \in DOMAIN boxscore : \A line \in BoxLines(last'.file, today) :
             (/\ SqlEq(boxscore[i].game_id, line.game_id)
              /\ SqlEq(boxscore[i].player_id, line.player_id))
                 => Numeric(boxscore'[i]) = Numeric(line)]_vars

(***************************************************************************)
(* C5                                                                      *)
(***************************************************************************)
\* C5: after a successful combined load of a payload with a game section, the
\* Game row of its game_id carries the payload's home and away team ids, also
\* when the row existed before with other teams.
C5_UpdateRewritesTeams ==
    (CombinedLoaded(last) /\ HasGameSection(last)) =>
        \A g \in games :
            SqlEq(g.game_id, GameIdOf(last)) =>
                /\ g.home_team_id = GetI(HomeTeamOf(last), "id")
                /\ g.away_team_id = GetI(AwayTeamOf(last), "id")

(***************************************************************************)
(* C6                                                                      *)
(***************************************************************************)
\* the value the precedence rule names: the top-level one when present, else
\* the embedded one, else null
PreferS(top, embedded) == IF top # NoneS THEN top ELSE embedded
PreferI(top, embedded) == IF top # None THEN top ELSE embedded

\* C6: after a successful combined load of a payload with a game section, the
\* Game row of its game_id exists and holds, for game_type, series_description
\* and official_date, the top-level value when the payload has one, else the
\* value embedded in game_data, else null.
C6_TopLevelMetadataWins ==
    (CombinedLoaded(last) /\ HasGameSection(last)) =>
        /\ \E g \in games : g.game_id = GameIdOf(last)
        /\ \A g \in games :
             g.game_id = GameIdOf(last) =>
                /\ g.game_type = PreferS(GetS(last.file.data, "game_type"),
                                         GetS(GameSection(last), "gameType"))
                /\ g.series_description =
                       PreferS(GetS(last.file.data, "series_description"),
                               GetS(GameSection(last), "seriesDescription"))
                /\ g.official_date = PreferI(GetI(last.file.data, "official_date"),
                                             GetI(GameSection(last), "officialDate"))

\* a combined payload with game_type "R" at the top level and "S" embedded was
\* loaded over an existing row, and the row holds "R"
C6_Witness ==
    /\ CombinedLoaded(last) /\ HasGameSection(last)
    /\ GetS(last.file.data, "game_type") = "R"
    /\ GetS(GameSection(last), "gameType") = "S"
    /\ Len(raw_json_data) >= 2
    /\ \E g \in games : g.game_id = GameIdOf(last) /\ g.game_type = "R"

(***************************************************************************)
(* C7                                                                      *)
(***************************************************************************)
\* C7: every Game row's non-null home_team_id and away_team_id name a Team
\* row, and every BoxscoreLine row's game_id, player_id and team_id name a
\* Game, a Player and a Team row.
C7_ReferentialIntegrity ==
    /\ \A g \in games :
         /\ g.home_team_id # None => g.home_team_id \in {t.team_id : t \in teams}
         /\ g.away_team_id # None => g.away_team_id \in {t.team_id : t \in teams}
    /\ \A i \in DOMAIN boxscore :
         /\ boxscore[i].game_id \in {g.game_id : g \in games}
         /\ boxscore[i].player_id \in {p.player_id : p \in players}
         /\ boxscore[i].team_id \in {t.team_id : t \in teams}

(***************************************************************************)
(* C8                                                                      *)
(***************************************************************************)
\* C8: a combined load in which a write failed leaves every table, the raw
\* payload table included, as it was before the call.
C8_CombinedAllOrNothing ==
    [][(KindOf(last') = "combined" /\ last'.failed # 0) => UNCHANGED tables]_vars

\* a combined load failed at a boxscore line, after the raw row, the teams,
\* the game and a player were written, on a database that already held rows
C8_Witness ==
    /\ KindOf(last) = "combined"
    /\ last.failed >= 5
    /\ FileStatements(last.file, today)[last.failed].op = "box"
    /\ ~last.result
    /\ raw_json_data # <<>>

(***************************************************************************)
(* C9                                                                      *)
(***************************************************************************)
\* C9: when a write failed during a load, load_json_to_database raises to its
\* caller.
C9_WriteFailureRaised == last.failed # 0 => last.raised

(***************************************************************************)
(* C10                                                                     *)
(***************************************************************************)
\* C10: a call on a path with none of the three markers selects no ingestion
\* path, returns False and writes no row; a call that reaches the dispatch on
\* a path with a marker runs exactly one path.
C10_DispatchByMarker ==
    [][/\ Markers(last'.file.path) = {} =>
            (last'.paths = <<>> /\ ~last'.result /\ UNCHANGED tables)
       /\ (Markers(last'.file.path) # {} /\ last'.dispatched) =>
            Len(last'.paths) = 1]_vars

\* a readable file without a marker was dispatched on a database holding
\* rows, and before it a path with two markers ran one path
C10_Witness ==
    /\ last.file.readable /\ last.dispatched
    /\ Markers(last.file.path) = {}
    /\ ~last.result
    /\ games # {}

C12_RawAppendOnly ==
    [][/\ Len(raw_json_data') >= Len(raw_json_data)
       /\ \A i \in DOMAIN raw_json_data : raw_json_data'[i] = raw_json_data[i]
       /\ (today' = today /\ last'.result) =>
            /\ Len(raw_json_data') = Len(raw_json_data) + 1
            /\ raw_json_data'[Len(raw_json_data')] =
                   [game_id |-> GameIdOf(last'), data_type |-> KindOf(last')]
            /\ Cardinality({g \in games' : g.game_id = GameIdOf(last')}) <= 1]_vars

(***************************************************************************)
(* C13                                                                     *)
(***************************************************************************)
\* the payload of a call has none of the three metadata fields, neither at
\* its top level nor in its game section
NoMetadata(call) ==
    /\ GetS(call.file.data, "game_type") = NoneS
    /\ GetS(call.file.data, "series_description") = NoneS
    /\ GetI(call.file.data, "official_date") = None
    /\ GetS(GameSection(call), "gameType") = NoneS
    /\ GetS(GameSection(call), "seriesDescription") = NoneS
    /\ GetI(GameSection(call), "officialDate") = None

\* the schedule lookup for the game of a call finds no entry
NoScheduleMatch(call) == fetch_game_metadata(ScheduleResponse, GameIdOf(call)) = EmptyDict

\* a Game row holds none of the three metadata columns
NullMetadata(g) ==
    g.game_type = NoneS /\ g.series_description = NoneS /\ g.official_date = None

\* C13: a combined load of a payload without the three metadata fields, for a
\* game the schedule lookup does not find and that has no stored metadata,
\* does not raise; it fails only when a write failed, and when it returns
\* True the Game row exists with the three columns null.
C13_NoMatchLeavesNull ==
    [][(/\ today' = today
        /\ KindOf(last') = "combined" /\ HasGameSection(last')
        /\ NoMetadata(last') /\ NoScheduleMatch(last')
        /\ \A g \in games : g.game_id = GameIdOf(last') => NullMetadata(g))
         => /\ ~last'.raised
            /\ ~last'.result => last'.failed # 0
            /\ last'.result =>
                 /\ \E g \in games' : g.game_id = GameIdOf(last')
                 /\ \A g \in games' : g.game_id = GameIdOf(last') => NullMetadata(g)]_vars

\* game 2, which the schedule does not list, was loaded from a combined
\* payload without metadata, and its row holds the scores and no metadata
C13_Witness ==
    /\ CombinedLoaded(last) /\ HasGameSection(last)
    /\ NoMetadata(last) /\ NoScheduleMatch(last)
    /\ GameIdOf(last) = 2
    /\ \E g \in games : g.game_id = 2 /\ g.home_score = 4 /\ NullMetadata(g)

(***************************************************************************)
(* C14                                                                     *)
(***************************************************************************)
\* what the schedule lookup gives for the game of a call
Looked(call) == fetch_game_metadata(ScheduleResponse, GameIdOf(call))

\* a text / date field the payload has neither at its top level nor embedded
LacksS(call, top, embedded) ==
    GetS(call.file.data, top) = NoneS /\ GetS(GameSection(call), embedded) = NoneS
LacksI(call, top, embedded) ==
    GetI(call.file.data, top) = None /\ GetI(GameSection(call), embedded) = None

\* C14: after a successful combined load of a payload with a game section,
\* for a game the schedule lookup finds, the Game row exists and holds the
\* looked-up value in each of game_type, series_description and official_date
\* that the payload lacks.
C14_LookupFillsMissing ==
    (CombinedLoaded(last) /\ HasGameSection(last) /\ Looked(last) # EmptyDict) =>
        /\ \E g \in games : g.game_id = GameIdOf(last)
        /\ \A g \in games :
             g.game_id = GameIdOf(last) =>
                /\ LacksS(last, "game_type", "gameType") =>
                     g.game_type = Looked(last).game_type
                /\ LacksS(last, "series_description", "seriesDescription") =>
                     g.series_description = Looked(last).series_description
                /\ LacksI(last, "official_date", "officialDate") =>
                     g.official_date = Looked(last).official_date

(***************************************************************************)
(* C15                                                                     *)
(***************************************************************************)
\* the players of one side of the boxscore section of a call's payload
SidePlayers(call, team_type) ==
    GetDef(GetD(GetD(GetD(call.file.data, "boxscore"), "teams"), team_type), "players", <<>>)

\* the payload of the end-to-end scenario: two teams with ids, no current
\* inning, a top-level game_type, and one batting player, on the home side,
\* whose stats give atBats, hits and homeRuns only
EndToEndPayload(call) ==
    /\ KindOf(call) = "combined" /\ HasGameSection(call)
    /\ GetI(HomeTeamOf(call), "id") # None /\ GetI(AwayTeamOf(call), "id") # None
    /\ GetI(GameSection(call), "currentInning") = None
    /\ GetS(call.file.data, "game_type") # NoneS
    /\ Len(SidePlayers(call, "home")) = 1 /\ SidePlayers(call, "away") = <<>>
    /\ StartsWithID(SidePlayers(call, "home")[1].key)
    /\ DOMAIN GetD(GetD(SidePlayers(call, "home")[1].data, "stats"), "batting")
           = {"atBats", "hits", "homeRuns"}

EndToEndPlayer(call) == SidePlayers(call, "home")[1].data
EndToEndBatting(call) == EndToEndPlayer(call)["stats"]["batting"]

\* C15: a successful load of the end-to-end payload into an empty database
\* leaves a Team row for each of the two team ids, exactly one Game row, with
\* the payload's runs, status "Final" and the top-level game_type, and
\* exactly one BoxscoreLine row, for the payload's player, with the three
\* given values and 0 in every other numeric column.
C15_EndToEnd ==
    [][(today' = today /\ Db = EmptyDb /\ last'.result /\ EndToEndPayload(last')) =>
         /\ {t.team_id : t \in teams'} =
                {GetI(HomeTeamOf(last'), "id"), GetI(AwayTeamOf(last'), "id")}
         /\ Cardinality(games') = 1
         /\ \A g \in games' :
               /\ g.game_id = GameIdOf(last')
               /\ g.home_score = GameSection(last')["teams"]["home"]["runs"]
               /\ g.away_score = GameSection(last')["teams"]["away"]["runs"]
               /\ g.game_status = "Final"
               /\ g.game_type = last'.file.data["game_type"]
         /\ Len(boxscore') = 1
         /\ boxscore'[1].game_id = GameIdOf(last')
         /\ boxscore'[1].player_id = EndToEndPlayer(last')["person"]["id"]
         /\ Numeric(boxscore'[1]) =
                [c \in NumericColumns |->
                    CASE c = "at_bats" -> EndToEndBatting(last')["atBats"]
                      [] c = "hits" -> EndToEndBatting(last')["hits"]
                      [] c = "home_runs" -> EndToEndBatting(last')["homeRuns"]
                      [] OTHER -> 0]]_vars

\* the end-to-end payload was loaded into the empty database: teams 10 and
\* 20, game 1 at 3:1, one line for player 501
C15_Witness ==
    /\ CombinedLoaded(last) /\ EndToEndPayload(last)
    /\ Len(raw_json_data) = 1
    /\ {t.team_id : t \in teams} = {10, 20}
    /\ \E g \in games : g.game_id = 1 /\ g.home_score = 3 /\ g.away_score = 1
                        /\ g.game_status = "Final" /\ g.game_type = "R"
    /\ Len(boxscore) = 1 /\ boxscore[1].player_id = 501 /\ boxscore[1].at_bats = 4
    /\ boxscore[1].hits = 2 /\ boxscore[1].home_runs = 1 /\ boxscore[1].doubles = 0

(***************************************************************************)
(* C16                                                                     *)
(***************************************************************************)
\* the number a run of digits spells
DigitsValue(part) ==
    CASE part = "1" -> 1
      [] part = "2" -> 2
      [] part = "776762" -> 776762
      [] OTHER -> None

\* the run of digits right before the extension of the file name, None when
\* there is none: boxscore_raw_776762.json gives 776762
FilenameGameId(path) ==
    IF Len(path) >= 2 THEN DigitsValue(path[Len(path) - 1]) ELSE None

\* the statements of a call that carry a game_id
WithGameId(call, now) ==
    {k \in DOMAIN FileStatements(call.file, now) :
        "game_id" \in DOMAIN FileStatements(call.file, now)[k].p}

\* C16: a boxscore-only or game-only load of a body without a game id, from
\* a file whose name ends in digits before the extension, uses the game id
\* those digits spell in every write, never null.
C16_GameIdFromFilename ==
    (/\ last.dispatched
     /\ KindOf(last) \in {"boxscore", "game_data"}
     /\ _extract_game_id_from_data(last.file.data) = None
     /\ FilenameGameId(last.file.path) # None) =>
        \A k \in WithGameId(last, today) :
            FileStatements(last.file, today)[k].p.game_id = FilenameGameId(last.file.path)

(***************************************************************************)
(* C17                                                                     *)
(***************************************************************************)
\* the boxscore document of a call's payload
BoxSection(call) ==
    IF KindOf(call) = "combined" THEN GetD(call.file.data, "boxscore") ELSE call.file.data

\* the batting entries of a call's payload: [player_id, batting]
PayloadEntries(call, side) ==
    GetDef(GetD(GetD(BoxSection(call), "teams"), side), "players", <<>>)
PayloadBatting(call) ==
    UNION {{[player_id |-> GetI(GetD(PayloadEntries(call, side)[k].data, "person"), "id"),
             batting |-> GetD(GetD(PayloadEntries(call, side)[k].data, "stats"), "batting")] :
               k \in {n \in DOMAIN PayloadEntries(call, side) :
                        StartsWithID(PayloadEntries(call, side)[n].key)}} :
           side \in {"home", "away"}}

\* a column of a stored row; a column the table does not have holds nothing
\* but its default
Column(row, c) == IF c \in DOMAIN row THEN row[c] ELSE 0

\* the external batting field the interface mapping assigns to each column
FieldOf(c) ==
    CASE c = "at_bats" -> "atBats"
      [] c = "home_runs" -> "homeRuns"
      [] c = "walks" -> "baseOnBalls"
      [] c = "strikeouts" -> "strikeOuts"
      [] c = "hit_by_pitch" -> "hitByPitch"
      [] c = "sacrifice_flies" -> "sacFlies"
      [] c = "sacrifice_bunts" -> "sacBunts"
      [] OTHER -> c
MappedColumns == NumericColumns \cup {"hit_by_pitch", "sacrifice_flies", "sacrifice_bunts"}

\* C17: every BoxscoreLine row a load adds holds, in each column of the
\* interface mapping, the value of the batting field mapped to it in the
\* payload's entry for that player (walks = baseOnBalls, ...), 0 when the
\* entry lacks the field.
C17_ColumnsFollowMapping ==
    [][\A i \in DOMAIN boxscore' \ DOMAIN boxscore :
          \E e \in PayloadBatting(last') :
              /\ e.player_id = boxscore'[i].player_id
              /\ \A c \in MappedColumns :
                    Column(boxscore'[i], c) = GetDef(e.batting, FieldOf(c), 0)]_vars

(***************************************************************************)
(* C18                                                                     *)
(***************************************************************************)
\* C18: a load that fails leaves every committed row of every table as it
\* was, and the load of the next file is carried out all the same: when it
\* succeeds on the combined path, its raw row is committed on top of the rows
\* the earlier files left.
C18_FailureAffectsOneFile ==
    [][/\ (today' = today /\ ~last'.result) => UNCHANGED tables
       /\ (today' = today /\ last'.after_failure /\ CombinedLoaded(last')) =>
            raw_json_data' = Append(raw_json_data,
                                    [game_id |-> GameIdOf(last'), data_type |-> "combined"])]_vars

\* a file was committed, a later load returned False, and the load right
\* after that one was committed: two games, two raw rows
C18_Witness ==
    /\ last.after_failure /\ CombinedLoaded(last)
    /\ Len(raw_json_data) = 2
    /\ raw_json_data[1].game_id # raw_json_data[2].game_id
    /\ Cardinality(games) = 2

(***************************************************************************)
(* C19                                                                     *)
(***************************************************************************)
\* the writes of the file of a call, in the order the loader sends them
Writes(call, now) == FileStatements(call.file, now)
\* the positions, in the writes w, of the writes of one kind
WritesOf(w, op) == {k \in DOMAIN w : w[k].op = op}

\* the raw payload save is the first write and the only one of its kind
RawFirst(w) == w # <<>> => WritesOf(w, "raw") = {1}

\* the order as claimed, on the writes w of one file
TeamsPlayersGameLines(w) ==
    /\ RawFirst(w)
    /\ \A g \in WritesOf(w, "game") :
          /\ \A k \in WritesOf(w, "team") \cup WritesOf(w, "player") : k < g
          /\ \A k \in WritesOf(w, "box") : g < k

\* C19 as claimed: the raw save first, then the Team and Player inserts, then
\* the Game write, then the BoxscoreLine writes: no Team or Player insert
\* after the Game write, no BoxscoreLine write before it.
C19_TeamsPlayersGameLines == last.dispatched => TeamsPlayersGameLines(Writes(last, today))

\* write k of w is preceded by an insert, of kind op, of the row key names; a
\* null key names no row
Preceded(w, k, op, column, key) ==
    key # None => \E j \in WritesOf(w, op) : j < k /\ w[j].p[column] = key

\* the order every row's references need, on the writes w of one file
WritesFollowReferences(w) ==
    /\ RawFirst(w)
    /\ Cardinality(WritesOf(w, "game")) <= 1
    /\ \A g \in WritesOf(w, "game") :
          /\ Preceded(w, g, "team", "team_id", w[g].p.home_team_id)
          /\ Preceded(w, g, "team", "team_id", w[g].p.away_team_id)
          /\ \A k \in WritesOf(w, "box") : g < k
    /\ \A k \in WritesOf(w, "player") : Preceded(w, k, "team", "team_id", w[k].p.team_id)
    /\ \A k \in WritesOf(w, "box") :
          /\ Preceded(w, k, "team", "team_id", w[k].p.team_id)
          /\ Preceded(w, k, "player", "player_id", w[k].p.player_id)

\* C19 amended: the raw save first; the Game write after the Team inserts of
\* its home and away team and before every BoxscoreLine write; each Player
\* insert after the Team insert of its team; each BoxscoreLine write after
\* the inserts of its Team and of its Player.
C19_WritesFollowReferences == last.dispatched => WritesFollowReferences(Writes(last, today))

\* the Game write, then a Team insert, then a Player insert, then that
\* player's BoxscoreLine write
GameTeamPlayerLine(w) ==
    \E g \in WritesOf(w, "game") : \E t \in WritesOf(w, "team") :
      \E p \in WritesOf(w, "player") : \E b \in WritesOf(w, "box") :
         g < t /\ t < p /\ p < b /\ w[b].p.player_id = w[p].p.player_id

\* a committed combined load that wrote the Game row, then a Team, then a
\* Player, then that player's BoxscoreLine
C19_Witness ==
    /\ CombinedLoaded(last)
    /\ GameTeamPlayerLine(Writes(last, today))
    /\ boxscore # <<>>

(***************************************************************************)
(* C20                                                                     *)
(***************************************************************************)
\* C20: a successful load of a payload with a game section and none of the
\* three metadata fields leaves every non-null game_type, series_description
\* and official_date stored for its game as it was.
C20_AbsentMetadataKeepsStored ==
    [][(today' = today /\ last'.result /\ HasGameSection(last') /\ NoMetadata(last')) =>
         \A g \in games : \A h \in games' :
            (g.game_id = GameIdOf(last') /\ h.game_id = g.game_id) =>
                /\ g.game_type # NoneS => h.game_type = g.game_type
                /\ g.series_description # NoneS => h.series_description = g.series_description
                /\ g.official_date # None => h.official_date = g.official_date]_vars

(***************************************************************************)
(* C21                                                                     *)
(***************************************************************************)
\* C21: a combined load stores game_status "Live" when the payload's
\* currentInning is not null, the value 0 included, and "Final" when it is
\* null or missing; no game carries any other status.
C21_StatusFromInning ==
    [][ (today' = today /\ CombinedLoaded(last') /\ HasGameSection(last')
         /\ GameIdOf(last') # None)
        => \A g \in games' :
             /\ g.game_status \in {"Live", "Final"}
             /\ g.game_id = GameIdOf(last')
                  => g.game_status =
                       (IF GetI(GameSection(last'), "currentInning") # None
                        THEN "Live" ELSE "Final") ]_vars

(***************************************************************************)
(* C22                                                                     *)
(***************************************************************************)
\* the caller's date and the embedded timestamp of the payload a call loaded
CallerDate(call) == GetI(call.file.data, "game_date")
EmbeddedStamp(call) == GetI(GameSection(call), "gameDate")
Parseable(stamp) == stamp # None /\ stamp # BadDate
\* the day an ISO timestamp falls on
DayOf(stamp) == CHOOSE d \in 0 .. stamp :
                    d * HoursPerDay <= stamp /\ stamp < (d + 1) * HoursPerDay

\* C22: the stored game_date is the caller-supplied date when one is given,
\* else the date part of the embedded gameDate timestamp when it is present
\* and parseable, else the wall-clock date of the load.
C22_DatePrecedence ==
    [][ (today' = today /\ CombinedLoaded(last') /\ HasGameSection(last')
         /\ GameIdOf(last') # None)
        => \A g \in games' :
             g.game_id = GameIdOf(last')
               => g.game_date =
                    (IF CallerDate(last') # None THEN CallerDate(last')
                     ELSE IF Parseable(EmbeddedStamp(last'))
                          THEN DayOf(EmbeddedStamp(last'))
                          ELSE today) ]_vars

\* a combined load with a caller's date and an embedded timestamp of another
\* day, on a third day
C22_Witness ==
    /\ CombinedLoaded(last) /\ HasGameSection(last)
    /\ CallerDate(last) # None
    /\ Parseable(EmbeddedStamp(last))
    /\ DayOf(EmbeddedStamp(last)) # CallerDate(last)
    /\ \E g \in games : g.game_id = GameIdOf(last) /\ g.game_date = CallerDate(last)

(***************************************************************************)
(* C23                                                                     *)
(***************************************************************************)
\* every game entry of a schedule document, whatever its date entry
AllGames(data) ==
    UNION { {GetDef(GetDef(data, "dates", <<>>)[i], "games", <<>>)[j] :
                j \in DOMAIN GetDef(GetDef(data, "dates", <<>>)[i], "games", <<>>)} :
            i \in DOMAIN GetDef(data, "dates", <<>>) }

Answered(response) == ~response.raises /\ response.status_code = 200
Matching(response, game_id) ==
    {g \in AllGames(response.data) : GetI(g, "gamePk") = game_id}

\* C23: fetch_game_metadata returns the metadata of a schedule entry only if
\* that entry's gamePk equals game_id, and returns None when no entry
\* matches, when the response is not HTTP 200 and when the request throws.
C23_MetadataOfMatchingEntry ==
    lookup.called =>
        /\ lookup.returned # EmptyDict =>
              /\ Answered(lookup.response)
              /\ \E g \in Matching(lookup.response, lookup.game_id) :
                     lookup.returned = MetadataOf(g)
        /\ (~Answered(lookup.response)
               \/ Matching(lookup.response, lookup.game_id) = {})
              => lookup.returned = EmptyDict

\* the game asked for is listed after a sibling game, and its metadata came back
C23_Witness ==
    /\ lookup.called
    /\ lookup.returned # EmptyDict
    /\ lookup.game_id # None
    /\ \E g \in AllGames(lookup.response.data) :
           GetI(g, "gamePk") \notin {None, lookup.game_id}
    /\ GetI(ScheduleGames(lookup.response.data)[1], "gamePk") # lookup.game_id

C25_TrueOnlyIfAllWritten ==
    scheduled.called =>
        /\ scheduled.result => scheduled.failed_games = {}
        /\ scheduled.failed_games # {} => ~scheduled.result
        /\ (scheduled.result \/ scheduled.failed_games # {})
              => scheduled.games_loaded + Cardinality(scheduled.failed_games)
                   = scheduled.total

(***************************************************************************)
(* C26                                                                     *)
(***************************************************************************)
\* C26: no committed row of raw_json_data, games or boxscore has a null
\* game_id, and no committed boxscore row has a null player_id.
C26_NoNullIdentifiers ==
    /\ \A i \in DOMAIN raw_json_data : raw_json_data[i].game_id # None
    /\ \A g \in games : g.game_id # None
    /\ \A i \in DOMAIN boxscore :
          boxscore[i].game_id # None /\ boxscore[i].player_id # None

(***************************************************************************)
(* C27                                                                     *)
(***************************************************************************)
\* what the connection of a call had written when its path returned
WrittenBy(call, d, now) == RunPath(KindOf(call), d, call.file.data, now, 0).uncommitted

\* C27: when load_json_to_database returns True, on whichever path, every
\* row the call wrote is in the tables a fresh connection reads.
C27_TrueMeansCommitted ==
    [][(today' = today /\ last'.result) => Db' = WrittenBy(last', Db, today)]_vars

(***************************************************************************)
(* C28                                                                     *)
(***************************************************************************)
\* C28: when a load_json_to_database or load_schedule_data call has
\* returned, the connection it opened is closed, and during the call no two
\* connections of the DatabaseConnection object were open at once, also
\* when the object was connected before the call.
C28_ClosedAndNeverTwo ==
    connection.by = "loader" =>
        /\ connection.current # "open"
        /\ connection.peak <= 1

(***************************************************************************)
(* C29                                                                     *)
(***************************************************************************)
\* the combined files of the range, and whether a file's game has its row
RangeFiles == Candidates(files)
HasGameRow(f) == \E g \in games : g.game_id = GetI(f.data, "game_id")

\* C29: a run without --clear leaves no combined file of the range behind:
\* when it has finished, every such file has its Game row or was loaded by
\* this run.
C29_IncrementalLoadsRemaining ==
    (batch.phase = "done" /\ ~batch.clear)
        => \A f \in RangeFiles : HasGameRow(f) \/ f \in batch.attempted

(***************************************************************************)
(* C30                                                                     *)
(***************************************************************************)
\* C30: the success count the run reports is the number of files whose
\* load_json_to_database call returned True, and the error count the number
\* of files whose load failed.
C30_CountsFollowReturns ==
    batch.phase = "done" =>
        /\ batch.success_count = batch.returned_true
        /\ batch.error_count = batch.returned_false

====
